---------------------------- MODULE Spec2Model ----------------------------
(***************************************************************************)
(* A model of dashboard_aggregator (src/src/main.rs): the selection of the *)
(* log files of a directory by name and age (filter_files), the per-file   *)
(* aggregation of the CSV records (process_csv_file) and the run of main:  *)
(* argument checks, the fold of the per-file aggregates into the global    *)
(* ones, the ranking and the two JSON documents.                           *)
(*                                                                         *)
(* Strings are sequences of one-character strings, so that starts_with,    *)
(* contains, str::parse, to_string, the date format and the byte-wise      *)
(* string order are computed and not assumed.  An instant is a pair        *)
(* <<seconds since the epoch, sub-second ticks>>.  A HashMap is a function *)
(* with a finite domain; its iteration order is chosen afresh whenever the *)
(* code iterates it.                                                       *)
(***************************************************************************)
EXTENDS Integers, Sequences, FiniteSets, TLC

VARIABLES
    args,                       \* env::args(): the command line
    dir,                        \* the entries of the log directory
    tz,                         \* the local offset from UTC, in seconds
    clock,                      \* the wall clock
    pc,                         \* where the run is
    exit_code,                  \* the process's exit code, <<>> while running
    stderr,                     \* what was printed on the error stream
    days_back,
    now_sel,                    \* `now` of filter_files
    selected,                   \* the Vec filter_files returned
    files,                      \* what `for file in files` has yet to visit
    processed,                  \* the files folded so far, each with its cutoff
    failed,                     \* the files process_csv_file failed on
    global_priorities_count,
    global_threat_sources,
    global_threat_destinations,
    global_aware_threats,
    threat_sources_vec,         \* global_threat_sources.into_iter().collect()
    threat_destinations_vec,
    top_threat_sources,
    top_threat_destinations,
    events_json,                \* <<>> or <<the document>>
    threat_sources_json,        \* <<>> or <<the document>>
    csv_pc,                     \* process_csv_file, record by record
    nread,                      \* the lines the reader has read
    header,                     \* the reader's header record, <<>> if none
    cutoff,                     \* cutoff.naive_local()
    record,                     \* the result the loop looks at, <<>> if none
    priorities_count,
    threat_sources,
    threat_destinations,
    aware_threats

mainVars == <<args, dir, tz, clock, pc, exit_code, stderr, days_back, now_sel,
              selected, files, processed, failed, global_priorities_count,
              global_threat_sources, global_threat_destinations,
              global_aware_threats, events_json, threat_sources_json>>
rankVars == <<threat_sources_vec, threat_destinations_vec, top_threat_sources,
              top_threat_destinations>>
csvVars == <<csv_pc, nread, header, cutoff, record, priorities_count,
             threat_sources, threat_destinations, aware_threats>>
vars == <<mainVars, rankVars, csvVars>>

-----------------------------------------------------------------------------
(* Bounds of the model.                                                    *)

MaxFiles == 2           \* entries of the directory
MaxRows == 3            \* lines of a file read record by record
MaxKeys == 11           \* keys of a mapping that is ranked
TicksPerSec == 2        \* sub-second resolution of the clock

(* Program constants.                                                      *)
SecsPerDay == 86400     \* Duration::days / Duration::try_days
TopN == 10              \* .take(10)
MaxPriority == 5        \* 0..=5
NoonHour == 12          \* date_time.hour() < 12

-----------------------------------------------------------------------------
(* Sequences and strings.                                                  *)

Range(s) == {s[i] : i \in 1..Len(s)}

Take(s, n) == SubSeq(s, 1, IF n < Len(s) THEN n ELSE Len(s))

Rev(s) == [i \in 1..Len(s) |-> s[Len(s) + 1 - i]]

\* str::starts_with
StartsWith(s, p) == Len(p) <= Len(s) /\ SubSeq(s, 1, Len(p)) = p

\* str::contains
Contains(s, p) ==
    \E i \in 0..(Len(s) - Len(p)) : SubSeq(s, i + 1, i + Len(p)) = p

\* The characters the model's strings use, in byte order.
Ascii == <<" ", "+", "-", ".", "/", "0", "1", "2", "3", "4", "5", "6", "7",
           "8", "9", ":", "A", "E", "G", "H", "I", "M", "P", "R", "W", "a",
           "d", "e", "f", "g", "h", "l", "m", "o", "p", "r", "t", "w", "x">>

CharCode(c) == CHOOSE i \in 1..Len(Ascii) : Ascii[i] = c

\* Ord for String: byte-wise lexicographic.
RECURSIVE StrLess(_, _)
StrLess(a, b) ==
    IF b = <<>> THEN FALSE
    ELSE IF a = <<>> THEN TRUE
    ELSE IF a[1] # b[1] THEN CharCode(a[1]) < CharCode(b[1])
    ELSE StrLess(Tail(a), Tail(b))

DigitChars == <<"0", "1", "2", "3", "4", "5", "6", "7", "8", "9">>

IsDigit(c) == c \in Range(DigitChars)

DigitVal(c) == (CHOOSE i \in 1..10 : DigitChars[i] = c) - 1

\* A non-negative integer in decimal: i32::to_string, and {:02}, {:04}.
RECURSIVE to_string(_)
to_string(n) ==
    IF n < 10 THEN <<DigitChars[n + 1]>>
    ELSE to_string(n \div 10) \o <<DigitChars[(n % 10) + 1]>>

RECURSIVE ZeroPad(_, _)
ZeroPad(s, w) == IF Len(s) >= w THEN s ELSE ZeroPad(<<"0">> \o s, w)

RECURSIVE DigitsVal(_, _)
DigitsVal(s, acc) ==
    IF s = <<>> THEN acc ELSE DigitsVal(Tail(s), 10 * acc + DigitVal(s[1]))

\* str::parse::<i64>: an optional sign, then one or more digits, nothing
\* else.  <<>> is Err, <<n>> is Ok(n).
ParseI64(s) ==
    LET signed == s # <<>> /\ s[1] \in {"+", "-"}
        digits == IF signed THEN Tail(s) ELSE s
    IN  IF digits = <<>> \/ \E i \in 1..Len(digits) : ~IsDigit(digits[i])
        THEN <<>>
        ELSE <<(IF signed /\ s[1] = "-" THEN -1 ELSE 1) * DigitsVal(digits, 0)>>

-----------------------------------------------------------------------------
(* Time.                                                                   *)

TimeLess(a, b) == a[1] < b[1] \/ (a[1] = b[1] /\ a[2] < b[2])

\* t - Duration::days(d)
SubDays(t, d) == <<t[1] - d * SecsPerDay, t[2]>>

Tick(t) == IF t[2] + 1 < TicksPerSec THEN <<t[1], t[2] + 1>> ELSE <<t[1] + 1, 0>>

IsLeapYear(y) == (y % 4 = 0 /\ y % 100 # 0) \/ y % 400 = 0

DaysInMonth(y, m) ==
    IF m = 2 THEN (IF IsLeapYear(y) THEN 29 ELSE 28)
    ELSE IF m \in {4, 6, 9, 11} THEN 30 ELSE 31

\* Days from 1970-01-01 to the civil date y-m-d.
DaysFromCivil(y, m, d) ==
    LET yy == IF m <= 2 THEN y - 1 ELSE y
        era == yy \div 400
        yoe == yy - era * 400
        mp == IF m > 2 THEN m - 3 ELSE m + 9
        doy == (153 * mp + 2) \div 5 + d - 1
        doe == yoe * 365 + yoe \div 4 - yoe \div 100 + doy
    IN  era * 146097 + doe - 719468

\* The text of a timestamp field: `wf` says whether it has the shape
\* number/number/number number:number:number, the rest are the numbers.
TsField(wf, Y, Mo, D, H, Mi, S) ==
    [wf |-> wf, Y |-> Y, Mo |-> Mo, D |-> D, H |-> H, Mi |-> Mi, S |-> S]

\* The empty string, as a timestamp field.
EmptyTs == TsField(FALSE, 0, 0, 0, 0, 0, 0)

\* NaiveDateTime::parse_from_str(s, "%Y/%m/%d %H:%M:%S"): <<>> is Err.  A
\* second of 60 is a leap second: second 59 with one more second of
\* sub-second part.
ParseDateTime(f) ==
    IF /\ f.wf
       /\ f.Y \in 0..9999
       /\ f.Mo \in 1..12
       /\ f.D \in 1..DaysInMonth(f.Y, f.Mo)
       /\ f.H \in 0..23
       /\ f.Mi \in 0..59
       /\ f.S \in 0..60
    THEN <<[date |-> <<f.Y, f.Mo, f.D>>,
            hour |-> f.H,
            t |-> <<DaysFromCivil(f.Y, f.Mo, f.D) * SecsPerDay + f.H * 3600
                        + f.Mi * 60 + (IF f.S = 60 THEN 59 ELSE f.S),
                    IF f.S = 60 THEN TicksPerSec ELSE 0>>]>>
    ELSE <<>>

\* Display for NaiveDate: %Y-%m-%d.
FormatDate(date) ==
    ZeroPad(to_string(date[1]), 4) \o <<"-">> \o ZeroPad(to_string(date[2]), 2)
        \o <<"-">> \o ZeroPad(to_string(date[3]), 2)

-----------------------------------------------------------------------------
(* CSV lines and records.  A line is [bad, fields]: `bad` says the reader  *)
(* cannot decode it, `fields` are its fields, 0-based in the code and      *)
(* 1-based here.  Field 4 is a TsField, every other field a string.        *)

AWARE == <<"A", "W", "A", "R", "E">>

Line(bad, fields) == [bad |-> bad, fields |-> fields]

\* What rdr.records() yields for a line read after the header (the reader
\* is not flexible: a record must have as many fields as the first one).
Deliver(hdr, line) ==
    [ok |-> ~line.bad /\ Len(line.fields) = Len(hdr.fields),
     fields |-> line.fields]

\* record.get(i).unwrap_or_default()
Get(fields, i) ==
    IF i + 1 <= Len(fields) THEN fields[i + 1]
    ELSE IF i = 4 THEN EmptyTs ELSE <<>>

EmptyMap == <<>>

Keys(m) == DOMAIN m

Count(m, k) == IF k \in DOMAIN m THEN m[k] ELSE 0

\* *m.entry(k).or_insert(0) += n
AddCount(m, k, n) ==
    IF k \in DOMAIN m THEN [m EXCEPT ![k] = @ + n]
    ELSE [x \in (DOMAIN m) \cup {k} |-> IF x = k THEN n ELSE m[x]]

AggregatedData(p, s, d, a) ==
    [priorities_count |-> p, threat_sources |-> s,
     threat_destinations |-> d, aware_threats |-> a]

EmptyAggregate == AggregatedData(EmptyMap, EmptyMap, EmptyMap, EmptyMap)

\* now - Duration::days(days_back), then .naive_local()
Cutoff(now, days, offset) ==
    LET c == SubDays(now, days) IN <<c[1] + offset, c[2]>>

\* Mutant of AfterCutoff: a row at the cutoff is included.
AtOrAfterCutoff(dt, cut) == ~TimeLess(dt.t, cut)

\* event_datetime > cutoff.naive_local()
AfterCutoff(dt, cut) == TimeLess(cut, dt.t)

\* Mutant of Period: noon counts as morning.
PeriodNoonIsMorning(dt) ==
    IF dt.hour <= NoonHour THEN <<"A", "M">> ELSE <<"P", "M">>

\* if date_time.hour() < 12 { "AM" } else { "PM" }
Period(dt) == IF dt.hour < NoonHour THEN <<"A", "M">> ELSE <<"P", "M">>

\* format!("{} {}", date_time.date(), period)
DatePeriod(dt) == FormatDate(dt.date) \o <<" ">> \o Period(dt)

\* The AWARE branch of the loop body.
CountAware(aware, fields) ==
    IF Contains(Get(fields, 3), AWARE)
    THEN LET again == ParseDateTime(Get(fields, 4))
         IN  IF again # <<>> THEN AddCount(aware, DatePeriod(again[1]), 1)
             ELSE aware
    ELSE aware

\* One iteration of `for result in rdr.records()`.
ProcessRecord(agg, result, cut) ==
    IF ~result.ok THEN agg
    ELSE LET parsed == ParseDateTime(Get(result.fields, 4))
         IN  IF parsed = <<>> THEN agg
             ELSE IF ~AfterCutoff(parsed[1], cut) THEN agg
             ELSE AggregatedData(
                    AddCount(agg.priorities_count, Get(result.fields, 1), 1),
                    AddCount(agg.threat_sources, Get(result.fields, 6), 1),
                    AddCount(agg.threat_destinations, Get(result.fields, 12), 1),
                    CountAware(agg.aware_threats, result.fields))

RECURSIVE ProcessRecords(_, _, _, _)
ProcessRecords(agg, hdr, lines, cut) ==
    IF lines = <<>> THEN agg
    ELSE ProcessRecords(ProcessRecord(agg, Deliver(hdr, Head(lines)), cut),
                        hdr, Tail(lines), cut)

\* The loop over rdr.records() on a file that opens: the first line is the
\* header, which records() does not yield.
ReadAll(lines, cut) ==
    IF lines = <<>> THEN EmptyAggregate
    ELSE ProcessRecords(EmptyAggregate, Head(lines), Tail(lines), cut)

process_csv_file(lines, days, now, offset) ==
    ReadAll(lines, Cutoff(now, days, offset))

-----------------------------------------------------------------------------
(* The inputs of the model: field values, lines, files, directory entries  *)
(* and command lines.                                                      *)

BaseSecs == 2 * SecsPerDay + 100        \* 1970-01-03 00:01:40 UTC

TzOffsets == {0, -18000}

Clocks == {<<BaseSecs, 0>>, <<BaseSecs, 1>>}

IP1 == <<"1", "0", ".", "0", ".", "0", ".", "1">>
IP2 == <<"1", "0", ".", "0", ".", "0", ".", "2">>
IP3 == <<"1", "0", ".", "0", ".", "0", ".", "3">>
AwareHigh == <<"A", "W", "A", "R", "E", "-", "H", "I", "G", "H">>
HighAware == <<"H", "I", "G", "H", "-", "A", "W", "A", "R", "E">>
LowerAware == <<"a", "w", "a", "r", "e">>
Awar == <<"A", "W", "A", "R">>
Text == <<"x">>

\* A line of 13 fields, cut to its first n.
Row(prio, flags, ts, src, dst, n) ==
    Take(<<Text, prio, Text, flags, ts, Text, src, Text, Text, Text, Text,
           Text, dst>>, n)

HeaderLine == Line(FALSE, Row(Text, Text, TsField(FALSE, 0, 0, 0, 0, 0, 0), Text, Text, 13))
ShortHeader == Line(FALSE, Row(Text, Text, TsField(FALSE, 0, 0, 0, 0, 0, 0), Text, Text, 5))

Morning == TsField(TRUE, 2024, 3, 1, 9, 0, 0)
Afternoon == TsField(TRUE, 2024, 3, 1, 13, 0, 0)
BeforeNoon == TsField(TRUE, 2024, 3, 1, 11, 59, 59)
Noon == TsField(TRUE, 2024, 3, 1, 12, 0, 0)
LeapSecond == TsField(TRUE, 1970, 1, 1, 23, 59, 60)
AtCutoff == TsField(TRUE, 1970, 1, 2, 0, 1, 40)      \* BaseSecs less a day
PastCutoff == TsField(TRUE, 1970, 1, 2, 0, 1, 41)
AtNow == TsField(TRUE, 1970, 1, 3, 0, 1, 40)         \* BaseSecs
Old == TsField(TRUE, 1969, 12, 31, 23, 0, 0)
Month13 == TsField(TRUE, 2024, 13, 1, 9, 0, 0)
Feb30 == TsField(TRUE, 2024, 2, 30, 9, 0, 0)
Hour24 == TsField(TRUE, 2024, 3, 1, 24, 0, 0)
Garbled == TsField(FALSE, 2024, 3, 1, 9, 0, 0)

P1 == <<"1">>
P3 == <<"3">>
P10 == <<"1", "0">>

R1 == Line(FALSE, Row(P1, AwareHigh, Morning, IP1, IP3, 13))
R2 == Line(FALSE, Row(P1, AwareHigh, Afternoon, IP1, IP3, 13))
R3 == Line(FALSE, Row(P3, LowerAware, PastCutoff, IP2, IP3, 13))
R4 == Line(FALSE, Row(P3, HighAware, AtCutoff, IP2, IP1, 13))
R5 == Line(FALSE, Row(P10, AwareHigh, Old, IP3, IP1, 13))
R6 == Line(FALSE, Row(P1, AwareHigh, Month13, IP3, IP1, 13))
R7 == Line(FALSE, Row(P1, AwareHigh, Garbled, IP3, IP1, 13))
R8 == Line(TRUE, Row(P1, AwareHigh, Morning, IP3, IP1, 13))
R9 == Line(FALSE, Row(P1, AwareHigh, Morning, IP3, IP1, 7))
R10 == Line(FALSE, Row(P3, Awar, Noon, IP2, IP2, 13))
R11 == Line(FALSE, Row(P10, HighAware, BeforeNoon, <<>>, IP2, 13))
R12 == Line(FALSE, Row(P1, AwareHigh, Noon, IP1, IP3, 5))
R13 == Line(FALSE, Row(P1, AwareHigh, LeapSecond, IP1, IP3, 13))
R14 == Line(FALSE, Row(P1, AwareHigh, AtNow, IP1, IP3, 13))
R15 == Line(FALSE, Row(P1, AwareHigh, Feb30, IP1, IP3, 13))
R16 == Line(FALSE, Row(P1, AwareHigh, Hour24, IP1, IP3, 13))
R17 == Line(FALSE, Row(P3, HighAware, Noon, IP2, IP2, 13))

\* The lines a file read record by record is made of.
Headers == {HeaderLine, ShortHeader, R1}
Lines == {R1, R2, R3, R4, R5, R6, R7, R8, R9, R10, R11, R12, R13, R14, R15, R16,
          R17}

\* The files of the directory of a whole run, by what they hold.
FileLines(content) ==
    CASE content = "A" -> <<HeaderLine, R1, R2, R3, R5>>
      [] content = "B" -> <<HeaderLine, R4, R8, R9, R11>>
      [] content = "C" -> <<R1, R2>>
      [] content = "D" -> <<ShortHeader, R12, R1>>
      [] content = "E" -> <<>>

Prefix == <<"f", "w", "d", "d", "m", "p", ".", "l", "o", "g", ".", "t", "m", "p">>
NameLog == SubSeq(Prefix, 1, 10)
NameOther == <<"x">> \o Prefix
NameTmp(n) == Prefix \o <<".">> \o to_string(n)

\* A directory entry: metadata() is Ok or not, modified() is <<>> (Err) or
\* <<the instant>>, and what the file holds.
Entry(name, meta, mtime, content) ==
    [name |-> name, meta |-> meta, mtime |-> mtime, content |-> content]

Catalog ==
    { Entry(Prefix, TRUE, <<<<BaseSecs, 0>>>>, "A"),
      Entry(NameTmp(1), TRUE, <<<<BaseSecs - SecsPerDay + 1, 0>>>>, "B"),
      Entry(NameTmp(2), TRUE, <<<<BaseSecs - SecsPerDay, 1>>>>, "A"),
      Entry(NameTmp(3), TRUE, <<<<BaseSecs - SecsPerDay, 0>>>>, "C"),
      Entry(NameTmp(4), TRUE, <<<<BaseSecs + 2, 0>>>>, "C"),
      Entry(NameTmp(5), FALSE, <<<<BaseSecs, 0>>>>, "A"),
      Entry(NameTmp(6), TRUE, <<>>, "D"),
      Entry(NameTmp(7), TRUE, <<<<-1, 1>>>>, "E"),
      Entry(NameLog, TRUE, <<<<BaseSecs, 0>>>>, "A"),
      Entry(NameOther, TRUE, <<<<BaseSecs + 2, 0>>>>, "B") }

Dirs == {d \in SUBSET Catalog : Cardinality(d) <= MaxFiles}

\* The <days_back> arguments: 0, 1, 10 and 01, signed, and not numbers.
DayStrings ==
    { <<"0">>, <<"1">>, <<"1", "0">>, <<"0", "1">>, <<"+", "1">>, <<"-", "0">>,
      <<"-", "1">>, <<"-">>, <<"+">>, <<>>, <<"x">>, <<"1", "x">>, <<"1", " ">>,
      <<"1", ".", "5">>, <<"1", "-">> }

Program == <<"d", "a">>
LogPath == <<"l", "o", "g">>

CommandLines ==
    {<<>>, <<Program>>, <<Program, LogPath>>}
        \cup {<<Program, LogPath, d>> : d \in DayStrings}
        \cup {<<Program, LogPath, <<"1">>, Text>>}

-----------------------------------------------------------------------------
(* filter_files.                                                           *)

RECURSIVE PermsOf(_)
PermsOf(S) ==
    IF S = {} THEN {<<>>}
    ELSE UNION {{<<x>> \o p : p \in PermsOf(S \ {x})} : x \in S}

\* meta.modified().unwrap_or_else(|_| SystemTime::now())
FileTime(e, sysnow) == IF e.mtime = <<>> THEN sysnow ELSE e.mtime[1]

\* Mutant of Newer: a file as old as the cutoff second is kept.
NewerOrSame(file_time, comparison_time) == file_time[1] >= comparison_time[1]

\* file_time > comparison_time, both in whole seconds
Newer(file_time, comparison_time) == file_time[1] > comparison_time[1]

\* The filter closure on one entry: "keep", "skip" or "panic" (an instant
\* before the epoch fails duration_since or the conversion to u64).
Verdict(e, days, now, sysnow) ==
    IF ~StartsWith(e.name, Prefix) THEN "skip"
    ELSE IF ~e.meta THEN "skip"
    ELSE IF FileTime(e, sysnow)[1] < 0 THEN "panic"
    ELSE IF SubDays(now, days)[1] < 0 THEN "panic"
    ELSE IF Newer(FileTime(e, sysnow), SubDays(now, days)) THEN "keep"
    ELSE "skip"

\* filter_files on the entries in the order read_dir yields them.
filter_files(entries, days, now, sysnow) ==
    [panic |-> \E i \in 1..Len(entries) :
                    Verdict(entries[i], days, now, sysnow) = "panic",
     files |-> SelectSeq(entries,
                    LAMBDA e : Verdict(e, days, now, sysnow) = "keep")]

-----------------------------------------------------------------------------
(* main.                                                                   *)

Running == <<>>

\* Mutant of SeededPriorities: the range excludes its end.
SeededBelowLast == [k \in {to_string(p) : p \in 0..(MaxPriority - 1)} |-> 0]

\* for priority in 0..=5 { global_priorities_count.insert(priority.to_string(), 0) }
SeededPriorities == [k \in {to_string(p) : p \in 0..MaxPriority} |-> 0]

\* Mutant of FoldCount: the count of the partial replaces the global one.
FoldOverwrite(g, k, n) ==
    [x \in (DOMAIN g) \cup {k} |-> IF x = k THEN n ELSE g[x]]

\* *global.entry(key).or_insert(0) += count
FoldCount(g, k, n) == AddCount(g, k, n)

\* for (key, count) in partial { ... }: the keys in some iteration order.
RECURSIVE FoldMap(_, _)
FoldMap(g, partial) ==
    IF DOMAIN partial = {} THEN g
    ELSE LET k == CHOOSE k \in DOMAIN partial : TRUE
         IN  FoldMap(FoldCount(g, k, partial[k]),
                     [x \in (DOMAIN partial) \ {k} |-> partial[x]])

\* The three comparators main sorts with: b.0.cmp(a.0), b.1.cmp(&a.1) and
\* a.0.cmp(&b.0); TRUE when a must come before b.
Precedes(by, a, b) ==
    CASE by = "key_desc" -> StrLess(b[1], a[1])
      [] by = "count_desc" -> a[2] > b[2]
      [] by = "key_asc" -> StrLess(a[1], b[1])

\* sort_by is stable: x, the last element, goes after every element of the
\* sorted rest that it does not precede.
RECURSIVE InsertSorted(_, _, _)
InsertSorted(s, x, by) ==
    IF s = <<>> THEN <<x>>
    ELSE IF Precedes(by, x, Head(s)) THEN <<x>> \o s
    ELSE <<Head(s)>> \o InsertSorted(Tail(s), x, by)

RECURSIVE SortBy(_, _)
SortBy(v, by) ==
    IF v = <<>> THEN <<>>
    ELSE InsertSorted(SortBy(SubSeq(v, 1, Len(v) - 1), by), v[Len(v)], by)

\* map.iter().collect() in the iteration order `order` of the keys
Collect(m, order) == [i \in 1..Len(order) |-> <<order[i], m[order[i]]>>]

\* Some iteration order of a set of keys.
RECURSIVE SomeOrder(_)
SomeOrder(S) ==
    IF S = {} THEN <<>>
    ELSE LET x == CHOOSE x \in S : TRUE IN <<x>> \o SomeOrder(S \ {x})

\* priorities_vec.sort_by(|a, b| b.0.cmp(a.0))
SortPriorities(v) == SortBy(v, "key_desc")

\* Mutant of SortByCountDesc: the comparison is the other way round.
SortByCountAsc(v) == Rev(SortBy(v, "count_desc"))

\* threat_sources_vec.sort_by(|a, b| b.1.cmp(&a.1))
SortByCountDesc(v) == SortBy(v, "count_desc")

\* .into_iter().take(10).collect()
TopEntries(v) == Take(SortByCountDesc(v), TopN)

\* aware_threats_vec.sort_by(|a, b| a.0.cmp(&b.0))
SortAware(v) == SortBy(v, "key_asc")

Firsts(v) == [i \in 1..Len(v) |-> v[i][1]]
Seconds(v) == [i \in 1..Len(v) |-> v[i][2]]

Arrays(v) == [Label |-> Firsts(v), Count |-> Seconds(v)]

\* json_data
EventsDocument(prios, top_src, top_dst, aware) ==
    [Priorities |-> Arrays(SortPriorities(Collect(prios, SomeOrder(DOMAIN prios)))),
     ThreatSources |-> Arrays(top_src),
     ThreatDestinations |-> Arrays(top_dst),
     AwareThreats |-> Arrays(SortAware(Collect(aware, SomeOrder(DOMAIN aware))))]

\* Mutant of ThreatSourcesDocument: the counts are those of the top entries,
\* in count order.
ThreatSourcesMisaligned(all_threat_sources, order) ==
    [Source |-> order,
     Count |-> Seconds(SortByCountDesc(Collect(all_threat_sources, order)))]

\* json_threat_sources: keys() and values() walk the map in one order.
ThreatSourcesDocument(all_threat_sources, order) ==
    [Source |-> order,
     Count |-> [i \in 1..Len(order) |-> all_threat_sources[order[i]]]]

-----------------------------------------------------------------------------
(* The run of main, one action per step.                                   *)

IdleCsv ==
    /\ csv_pc = "idle"
    /\ nread = 0
    /\ header = <<>>
    /\ cutoff = <<0, 0>>
    /\ record = <<>>
    /\ priorities_count = EmptyMap
    /\ threat_sources = EmptyMap
    /\ threat_destinations = EmptyMap
    /\ aware_threats = EmptyMap

IdleRank ==
    /\ threat_sources_vec = <<>>
    /\ threat_destinations_vec = <<>>
    /\ top_threat_sources = <<>>
    /\ top_threat_destinations = <<>>

IdleMain ==
    /\ exit_code = Running
    /\ stderr = <<>>
    /\ now_sel = <<0, 0>>
    /\ selected = <<>>
    /\ files = <<>>
    /\ processed = <<>>
    /\ failed = <<>>
    /\ global_priorities_count = EmptyMap
    /\ global_threat_sources = EmptyMap
    /\ global_threat_destinations = EmptyMap
    /\ global_aware_threats = EmptyMap
    /\ events_json = <<>>
    /\ threat_sources_json = <<>>

Init ==
    /\ args \in CommandLines
    /\ dir \in Dirs
    /\ tz \in TzOffsets
    /\ clock \in Clocks
    /\ pc = "main"
    /\ days_back = 0
    /\ IdleMain
    /\ IdleRank
    /\ IdleCsv

\* The process ends: by exit(1) or an Err from main (code 1), by a panic
\* (code 101), or by Ok(()) (code 0).
Ends(how, code, message) ==
    /\ pc' = how
    /\ exit_code' = <<code>>
    /\ stderr' = IF message = "" THEN stderr ELSE Append(stderr, message)

globals == <<global_priorities_count, global_threat_sources,
             global_threat_destinations, global_aware_threats>>
outputs == <<events_json, threat_sources_json>>
inputs == <<args, dir, tz>>
loopVars == <<now_sel, selected, files, processed, failed>>

\* args.len() < 3: the usage message names args[0].
UsageError ==
    /\ pc = "main"
    /\ Len(args) < 3
    /\ Len(args) >= 1
    /\ Ends("exited", 1, "Usage: <program> <path_to_log_files> <days_back>")
    /\ UNCHANGED <<inputs, clock, days_back, loopVars, globals, outputs,
                   rankVars, csvVars>>

\* args.len() < 3 with no args[0] to name: the index panics.
NoProgramName ==
    /\ pc = "main"
    /\ Len(args) = 0
    /\ Ends("panicked", 101, "panic: index out of bounds")
    /\ UNCHANGED <<inputs, clock, days_back, loopVars, globals, outputs,
                   rankVars, csvVars>>

\* args[2].parse().expect("Please provide a valid number for days")
BadNumber ==
    /\ pc = "main"
    /\ Len(args) >= 3
    /\ ParseI64(args[3]) = <<>>
    /\ Ends("panicked", 101, "panic: Please provide a valid number for days")
    /\ UNCHANGED <<inputs, clock, days_back, loopVars, globals, outputs,
                   rankVars, csvVars>>

\* days_back < 0
NegativeDays ==
    /\ pc = "main"
    /\ Len(args) >= 3
    /\ ParseI64(args[3]) # <<>>
    /\ ParseI64(args[3])[1] < 0
    /\ days_back' = ParseI64(args[3])[1]
    /\ Ends("exited", 1, "Error: <days_back> must be a non-negative number.")
    /\ UNCHANGED <<inputs, clock, loopVars, globals, outputs, rankVars, csvVars>>

ArgsOk ==
    /\ pc = "main"
    /\ Len(args) >= 3
    /\ ParseI64(args[3]) # <<>>
    /\ ParseI64(args[3])[1] >= 0
    /\ days_back' = ParseI64(args[3])[1]
    /\ pc' = "select"
    /\ UNCHANGED <<inputs, clock, exit_code, stderr, loopVars, globals, outputs,
                   rankVars, csvVars>>

\* fs::read_dir(path).expect("Error reading directory")
ReadDirFails ==
    /\ pc = "select"
    /\ Ends("panicked", 101, "panic: Error reading directory")
    /\ UNCHANGED <<inputs, clock, days_back, loopVars, globals, outputs,
                   rankVars, csvVars>>

\* filter_files panics inside the closure.
FilterPanics ==
    /\ pc = "select"
    /\ \E order \in PermsOf(dir), sysnow \in {clock, Tick(clock)} :
          /\ filter_files(order, days_back, clock, sysnow).panic
          /\ clock' = sysnow
    /\ now_sel' = clock
    /\ Ends("panicked", 101, "panic: filter_files")
    /\ UNCHANGED <<inputs, days_back, selected, files, processed, failed,
                   globals, outputs, rankVars, csvVars>>

\* let files = filter_files(..); the four global maps; the seeding.
SelectFiles ==
    /\ pc = "select"
    /\ \E order \in PermsOf(dir), sysnow \in {clock, Tick(clock)} :
          LET r == filter_files(order, days_back, clock, sysnow)
          IN  /\ ~r.panic
              /\ selected' = r.files
              /\ files' = r.files
              /\ clock' = sysnow
    /\ now_sel' = clock
    /\ global_priorities_count' = SeededPriorities
    /\ global_threat_sources' = EmptyMap
    /\ global_threat_destinations' = EmptyMap
    /\ global_aware_threats' = EmptyMap
    /\ pc' = "loop"
    /\ UNCHANGED <<inputs, days_back, exit_code, stderr, processed, failed,
                   outputs, rankVars, csvVars>>

\* One iteration of `for file in files`: process_csv_file, which reads the
\* clock, then the fold.  The next reading of the clock is a tick later.
ProcessFile ==
    /\ pc = "loop"
    /\ files # <<>>
    /\ LET file == Head(files)
           partial == process_csv_file(FileLines(file.content), days_back, clock, tz)
       IN  /\ global_priorities_count' =
                  FoldMap(global_priorities_count, partial.priorities_count)
           /\ global_threat_sources' =
                  FoldMap(global_threat_sources, partial.threat_sources)
           /\ global_threat_destinations' =
                  FoldMap(global_threat_destinations, partial.threat_destinations)
           /\ global_aware_threats' =
                  FoldMap(global_aware_threats, partial.aware_threats)
           /\ processed' = Append(processed,
                  [file |-> file, cutoff |-> Cutoff(clock, days_back, tz)])
    /\ files' = Tail(files)
    /\ clock' = Tick(clock)
    /\ UNCHANGED <<inputs, pc, days_back, exit_code, stderr, now_sel, selected,
                   failed, outputs, rankVars, csvVars>>

\* Mutant of ProcessFileFails: the file is reported and skipped.
ProcessFileSkips ==
    /\ pc = "loop"
    /\ files # <<>>
    /\ failed' = Append(failed, Head(files))
    /\ files' = Tail(files)
    /\ stderr' = Append(stderr, "Error: file")
    /\ UNCHANGED <<inputs, clock, pc, exit_code, days_back, now_sel, selected,
                   processed, globals, outputs, rankVars, csvVars>>

\* process_csv_file(..)? returns the Err of from_path.
ProcessFileFails ==
    /\ pc = "loop"
    /\ files # <<>>
    /\ failed' = Append(failed, Head(files))
    /\ Ends("failed", 1, "Error: file")
    /\ UNCHANGED <<inputs, clock, days_back, now_sel, selected, files, processed,
                   globals, outputs, rankVars, csvVars>>

\* The loop is over: each of the two maps is collected into a Vec, in some
\* iteration order, sorted, and cut to its top 10.
RankGlobals ==
    /\ pc = "loop"
    /\ files = <<>>
    /\ \E so \in PermsOf(DOMAIN global_threat_sources) :
          top_threat_sources' = TopEntries(Collect(global_threat_sources, so))
    /\ \E do \in PermsOf(DOMAIN global_threat_destinations) :
          top_threat_destinations' =
              TopEntries(Collect(global_threat_destinations, do))
    /\ pc' = "ranked"
    /\ UNCHANGED <<inputs, clock, days_back, exit_code, stderr, loopVars, globals,
                   outputs, threat_sources_vec, threat_destinations_vec, csvVars>>

\* The same step from Vecs already collected.
RankTop ==
    /\ pc = "rank"
    /\ top_threat_sources' = TopEntries(threat_sources_vec)
    /\ top_threat_destinations' = TopEntries(threat_destinations_vec)
    /\ pc' = "ranked"
    /\ UNCHANGED <<inputs, clock, days_back, exit_code, stderr, loopVars, globals,
                   outputs, threat_sources_vec, threat_destinations_vec, csvVars>>

\* File::create("events.json")?; file.write_all(..)?
WriteEvents ==
    /\ pc = "ranked"
    /\ events_json' = <<EventsDocument(global_priorities_count, top_threat_sources,
                            top_threat_destinations, global_aware_threats)>>
    /\ pc' = "write_ts"
    /\ UNCHANGED <<inputs, clock, days_back, exit_code, stderr, loopVars, globals,
                   threat_sources_json, rankVars, csvVars>>

\* A document whose write_all failed after File::create.
Truncated == [truncated |-> TRUE]

WriteEventsFails ==
    /\ pc = "ranked"
    /\ events_json' \in {<<>>, <<Truncated>>}
    /\ Ends("failed", 1, "Error: events.json")
    /\ UNCHANGED <<inputs, clock, days_back, loopVars, globals,
                   threat_sources_json, rankVars, csvVars>>

\* File::create("threat_sources.json")?; file.write_all(..)?; Ok(())
WriteThreatSources ==
    /\ pc = "write_ts"
    /\ \E order \in PermsOf(DOMAIN global_threat_sources) :
          threat_sources_json' =
              <<ThreatSourcesDocument(global_threat_sources, order)>>
    /\ Ends("done", 0, "")
    /\ UNCHANGED <<inputs, clock, days_back, loopVars, globals, events_json,
                   rankVars, csvVars>>

WriteThreatSourcesFails ==
    /\ pc = "write_ts"
    /\ threat_sources_json' \in {<<>>, <<Truncated>>}
    /\ Ends("failed", 1, "Error: threat_sources.json")
    /\ UNCHANGED <<inputs, clock, days_back, loopVars, globals, events_json,
                   rankVars, csvVars>>

Next ==
    \/ UsageError
    \/ NoProgramName
    \/ BadNumber
    \/ NegativeDays
    \/ ArgsOk
    \/ ReadDirFails
    \/ FilterPanics
    \/ SelectFiles
    \/ ProcessFile
    \/ ProcessFileFails
    \/ RankGlobals
    \/ WriteEvents
    \/ WriteEventsFails
    \/ WriteThreatSources
    \/ WriteThreatSourcesFails

Spec == Init /\ [][Next]_vars

-----------------------------------------------------------------------------
(* process_csv_file, record by record: the reader delivers the header and  *)
(* then up to MaxRows lines, each one any of Lines.                        *)

StoppedMain ==
    /\ args = <<>>
    /\ dir = {}
    /\ pc = "idle"
    /\ IdleMain

InitCsv ==
    /\ StoppedMain
    /\ IdleRank
    /\ tz \in TzOffsets
    /\ clock \in Clocks
    /\ days_back \in 0..1
    /\ csv_pc = "start"
    /\ nread = 0
    /\ header = <<>>
    /\ cutoff = <<0, 0>>
    /\ record = <<>>
    /\ priorities_count = EmptyMap
    /\ threat_sources = EmptyMap
    /\ threat_destinations = EmptyMap
    /\ aware_threats = EmptyMap

partials == <<priorities_count, threat_sources, threat_destinations, aware_threats>>

\* let cutoff = now - Duration::days(days_back); from_path(file_path)?
OpenCsv ==
    /\ csv_pc = "start"
    /\ cutoff' = Cutoff(clock, days_back, tz)
    /\ csv_pc' = "loop"
    /\ UNCHANGED <<mainVars, rankVars, nread, header, record, partials>>

OpenCsvFails ==
    /\ csv_pc = "start"
    /\ cutoff' = Cutoff(clock, days_back, tz)
    /\ csv_pc' = "err"
    /\ UNCHANGED <<mainVars, rankVars, nread, header, record, partials>>

\* The first line the reader reads is the header; records() does not
\* yield it.
ReadHeader ==
    /\ csv_pc = "loop"
    /\ nread = 0
    /\ \E h \in Headers : header' = <<h>>
    /\ nread' = 1
    /\ UNCHANGED <<mainVars, rankVars, csv_pc, cutoff, record, partials>>

\* One iteration of the loop over rdr.records().
NextRecord ==
    /\ csv_pc = "loop"
    /\ header # <<>>
    /\ nread <= MaxRows
    /\ \E l \in Lines :
          LET result == Deliver(header[1], l)
              agg == ProcessRecord(
                        AggregatedData(priorities_count, threat_sources,
                                       threat_destinations, aware_threats),
                        result, cutoff)
          IN  /\ record' = <<result>>
              /\ priorities_count' = agg.priorities_count
              /\ threat_sources' = agg.threat_sources
              /\ threat_destinations' = agg.threat_destinations
              /\ aware_threats' = agg.aware_threats
    /\ nread' = nread + 1
    /\ UNCHANGED <<mainVars, rankVars, csv_pc, header, cutoff>>

\* The file has no more lines: Ok(AggregatedData { .. })
EndOfFile ==
    /\ csv_pc = "loop"
    /\ csv_pc' = "done"
    /\ UNCHANGED <<mainVars, rankVars, nread, header, cutoff, record, partials>>

NextCsv ==
    \/ OpenCsv
    \/ OpenCsvFails
    \/ ReadHeader
    \/ NextRecord
    \/ EndOfFile

SpecCsv == InitCsv /\ [][NextCsv]_vars

-----------------------------------------------------------------------------
(* The ranking on its own: the Vecs are collected entry by entry, up to    *)
(* MaxKeys distinct keys with a low or a high count each, in any order,    *)
(* then ranked and written.                                                *)

RankCounts == {1, 2}

InitRank ==
    /\ args = <<>>
    /\ dir = {}
    /\ tz = 0
    /\ clock = <<BaseSecs, 0>>
    /\ days_back = 0
    /\ IdleMain
    /\ IdleCsv
    /\ IdleRank
    /\ pc = "rank"

\* .into_iter().collect() yields one more (key, count) pair; the map may
\* end at any of them.
CollectEntry ==
    /\ pc = "rank"
    /\ Len(threat_sources_vec) < MaxKeys
    /\ \E c \in RankCounts :
          /\ threat_sources_vec' =
                Append(threat_sources_vec, <<to_string(Len(threat_sources_vec) + 1), c>>)
          /\ threat_destinations_vec' =
                <<<<to_string(Len(threat_sources_vec) + 1), c>>>>
                    \o threat_destinations_vec
    /\ UNCHANGED <<mainVars, top_threat_sources, top_threat_destinations, csvVars>>

NextRank ==
    \/ CollectEntry
    \/ RankTop
    \/ WriteEvents

SpecRank == InitRank /\ [][NextRank]_vars

-----------------------------------------------------------------------------
(* What the claims speak of.                                               *)

\* filter_files has returned.
Returned == pc \in {"loop", "ranked", "write_ts", "done", "failed"}

\* The name and metadata of an entry allow its selection.
Matching(e) == StartsWith(e.name, Prefix) /\ e.meta

\* A row the reader delivers that is inside the window of `cut`.
RowIncluded(hdr, line, cut) ==
    /\ Deliver(hdr, line).ok
    /\ ParseDateTime(Get(line.fields, 4)) # <<>>
    /\ TimeLess(cut, ParseDateTime(Get(line.fields, 4))[1].t)

\* The included rows of the files folded so far: <<file index, line index>>.
IncludedRows ==
    {ij \in UNION {{<<i, j>> : j \in 2..Len(FileLines(processed[i].file.content))}
                      : i \in 1..Len(processed)} :
        RowIncluded(FileLines(processed[ij[1]].file.content)[1],
                    FileLines(processed[ij[1]].file.content)[ij[2]],
                    processed[ij[1]].cutoff)}

RowAt(ij) == FileLines(processed[ij[1]].file.content)[ij[2]]

SeedKeys == {<<"0">>, <<"1">>, <<"2">>, <<"3">>, <<"4">>, <<"5">>}

AllZero ==
    /\ DOMAIN global_priorities_count = SeedKeys
    /\ \A k \in SeedKeys : global_priorities_count[k] = 0
    /\ DOMAIN global_threat_sources = {}
    /\ DOMAIN global_threat_destinations = {}
    /\ DOMAIN global_aware_threats = {}

-----------------------------------------------------------------------------
\* C1: filter_files returns an entry if and only if its name starts with
\* "fwddmp.log.tmp" and its modification time is strictly later than
\* now - daysBack days, however little later.  (Stated for the entries
\* whose metadata and modification time can be read.)
C1SelectedIffNewer ==
    Returned =>
        \A e \in dir :
            (e.meta /\ e.mtime # <<>>) =>
                ((e \in Range(selected)) <=>
                    (/\ StartsWith(e.name, Prefix)
                     /\ TimeLess(SubDays(now_sel, days_back), e.mtime[1])))

NoFutureFile ==
    \A e \in dir :
        Matching(e) => (e.mtime # <<>> /\ e.mtime[1][1] <= now_sel[1])

-----------------------------------------------------------------------------
\* The partial aggregate the i-th folded file gave.
PartialOf(i) == ReadAll(FileLines(processed[i].file.content), processed[i].cutoff)

\* The partial aggregates of the folded files, in the order of the fold.
Partials == [i \in 1..Len(processed) |-> PartialOf(i)]

RECURSIVE SumCounts(_, _, _, _)
SumCounts(parts, field, k, n) ==
    IF n = 0 THEN 0
    ELSE SumCounts(parts, field, k, n - 1) + Count(parts[n][field], k)

IsSumOfPartials(global, parts, field, seed) ==
    /\ DOMAIN global = seed \cup UNION {DOMAIN parts[i][field] : i \in 1..Len(parts)}
    /\ \A k \in DOMAIN global : global[k] = SumCounts(parts, field, k, Len(parts))

\* C5: in whatever order the selected files are folded, each global mapping
\* has, at every point of the fold and at the end of the run, the keys of
\* the partial aggregates folded (and the seeds) and, for each key, the sum
\* of its counts over those partial aggregates.
C5FoldIsSumInAnyOrder ==
    pc \in {"loop", "done"} =>
        LET parts == Partials
        IN  /\ IsSumOfPartials(global_priorities_count, parts, "priorities_count",
                               SeedKeys)
            /\ IsSumOfPartials(global_threat_sources, parts, "threat_sources", {})
            /\ IsSumOfPartials(global_threat_destinations, parts,
                               "threat_destinations", {})
            /\ IsSumOfPartials(global_aware_threats, parts, "aware_threats", {})

\* Two files with a source IP in common have been folded, the second one
\* selected first in the directory order of some other run.
C5Witness ==
    /\ pc = "done"
    /\ Len(processed) = 2
    /\ \E k \in DOMAIN PartialOf(1).threat_sources :
          /\ k \in DOMAIN PartialOf(2).threat_sources
          /\ global_threat_sources[k] >= 2
    /\ PartialOf(1) # PartialOf(2)

\* C6: from the seeding on, priorities_count has the keys "0".."5"; while no
\* row has been included each of them is 0; the Priorities arrays of
\* events.json list them.
C6SeededPrioritiesStay ==
    Returned =>
        /\ SeedKeys \subseteq DOMAIN global_priorities_count
        /\ IncludedRows = {} =>
              \A k \in SeedKeys : global_priorities_count[k] = 0
        /\ events_json # <<>> /\ events_json # <<Truncated>> =>
              /\ SeedKeys \subseteq Range(events_json[1].Priorities.Label)
              /\ \A i \in 1..Len(events_json[1].Priorities.Label) :
                    events_json[1].Priorities.Count[i] =
                        global_priorities_count[events_json[1].Priorities.Label[i]]

\* A run has written events.json after folding rows of a priority that is
\* not seeded, with a seeded priority that no row has.
C6Witness ==
    /\ pc = "done"
    /\ IncludedRows # {}
    /\ <<"1", "0">> \in DOMAIN global_priorities_count
    /\ global_priorities_count[<<"0">>] = 0
    /\ Len(events_json[1].Priorities.Label) = 7

-----------------------------------------------------------------------------
\* The command line is one of the usage errors.
TooFewArguments == Len(args) < 3
NonNumericDays == Len(args) >= 3 /\ ParseI64(args[3]) = <<>>
NegativeDaysBack == Len(args) >= 3 /\ ParseI64(args[3]) # <<>> /\ ParseI64(args[3])[1] < 0

NothingReadOrWritten ==
    /\ now_sel = <<0, 0>>
    /\ selected = <<>>
    /\ processed = <<>>
    /\ failed = <<>>
    /\ events_json = <<>>
    /\ threat_sources_json = <<>>

\* C9: every usage error (fewer than two positional arguments, a
\* non-numeric or a negative <days_back>) ends the run with exit code 1
\* after a message on the error stream, nothing read and nothing written.
\* (Stated for the command lines that name the program.)
C9UsageErrorsExitOne ==
    (/\ TooFewArguments \/ NonNumericDays \/ NegativeDaysBack
     /\ Len(args) >= 1
     /\ pc # "main") =>
        /\ exit_code = <<1>>
        /\ stderr # <<>>
        /\ NothingReadOrWritten

-----------------------------------------------------------------------------
(* The claims about process_csv_file, under SpecCsv.                       *)

\* Field 4 parses as a timestamp strictly after the cutoff.
InWindow(fields, cut) ==
    /\ ParseDateTime(Get(fields, 4)) # <<>>
    /\ TimeLess(cut, ParseDateTime(Get(fields, 4))[1].t)

\* new is old with exactly 1 added at key.
PlusOne(old, new, key) ==
    /\ DOMAIN new = (DOMAIN old) \cup {key}
    /\ \A k \in DOMAIN new : new[k] = Count(old, k) + (IF k = key THEN 1 ELSE 0)

\* What the claim says a row of these fields does to the aggregates.
RowEffect(fields) ==
    IF InWindow(fields, cutoff)
    THEN /\ PlusOne(priorities_count, priorities_count', Get(fields, 1))
         /\ PlusOne(threat_sources, threat_sources', Get(fields, 6))
         /\ PlusOne(threat_destinations, threat_destinations', Get(fields, 12))
    ELSE UNCHANGED partials

MorningKey == <<"2", "0", "2", "4", "-", "0", "3", "-", "0", "1", " ", "A", "M">>
AfternoonKey == <<"2", "0", "2", "4", "-", "0", "3", "-", "0", "1", " ", "P", "M">>

\* The bucket the claim names for a timestamp field.
Bucket(f) ==
    FormatDate(<<f.Y, f.Mo, f.D>>)
        \o (IF f.H \in 0..11 THEN <<" ", "A", "M">> ELSE <<" ", "P", "M">>)

\* C4: an included row whose flags contain "AWARE" adds exactly 1 to one
\* AWARE bucket, "<date> AM" for an hour in 0..11 and "<date> PM" for an
\* hour in 12..23 ("2024-03-01 AM" for 2024/03/01 09:00:00, "2024-03-01 PM"
\* for 13:00:00); any other row changes no AWARE bucket.
C4AwareBuckets ==
    [][IF nread' = nread + 1 /\ nread >= 1
       THEN LET r == record'[1]
                f == Get(r.fields, 4)
            IN  IF r.ok /\ InWindow(r.fields, cutoff)
                       /\ Contains(Get(r.fields, 3), AWARE)
                THEN /\ PlusOne(aware_threats, aware_threats', Bucket(f))
                     /\ f.H \in 0..23
                     /\ f = Morning => PlusOne(aware_threats, aware_threats', MorningKey)
                     /\ f = Afternoon =>
                            PlusOne(aware_threats, aware_threats', AfternoonKey)
                ELSE UNCHANGED aware_threats
       ELSE UNCHANGED aware_threats]_vars

\* AWARE rows of 09:00:00, 12:00:00 and 13:00:00 of 2024/03/01 have been
\* counted.
C4Witness ==
    /\ record # <<>>
    /\ record[1].ok
    /\ Get(record[1].fields, 4) = Noon
    /\ Count(aware_threats, MorningKey) = 1
    /\ Count(aware_threats, AfternoonKey) = 2

-----------------------------------------------------------------------------
(* The claim about the ranking, under SpecRank.                            *)

\* The arrays are the 10 highest-count entries of the collected mapping.
IsTopOf(arr, vec) ==
    /\ Len(arr.Label) = (IF Len(vec) < 10 THEN Len(vec) ELSE 10)
    /\ Len(arr.Count) = Len(arr.Label)
    /\ \A i \in 1..Len(arr.Label) : <<arr.Label[i], arr.Count[i]>> \in Range(vec)
    /\ \A i, j \in 1..Len(arr.Label) : arr.Label[i] = arr.Label[j] => i = j
    /\ \A i \in 1..(Len(arr.Count) - 1) : arr.Count[i] >= arr.Count[i + 1]
    /\ \A e \in Range(vec) :
          e[1] \notin Range(arr.Label) =>
              \A i \in 1..Len(arr.Count) : e[2] <= arr.Count[i]

=============================================================================
